---- MODULE Spec2Model ----
(***************************************************************************)
(* Model of SmartShelfOptimizer (src/改版3.py): the in-memory engine state *)
(* (height_history, item_data, gaze_data), its sqlite mirror (tables       *)
(* item_data, gaze_data, height_history) and the operations on them.       *)
(*                                                                         *)
(* Units.  Heights are integers in centimetres (1.0 m = 100).  Pixel       *)
(* heights are integers in 1/PixelUnit pixel, so that the boundary         *)
(* measurement 420/2.2 px is representable.  Scores and priorities are     *)
(* exact rationals <<num, den>> with den > 0.                              *)
(***************************************************************************)
EXTENDS Integers, Sequences, FiniteSets, TLC

VARIABLES
    shelf_layout,       \* self.shelf_layout: ordered <<[zone, start, end]>>
    gaze_weight,        \* self.gaze_weight, in tenths (6 = 0.6)
    height_history,     \* self.height_history: deque(maxlen = history_frames)
    item_data,          \* self.item_data: insertion-ordered dict, as a sequence of rows
    gaze_data,          \* self.gaze_data: defaultdict(int), a function on its keys
    db_item_data,       \* table item_data, in rowid order
    db_gaze_data,       \* table gaze_data, a function on its primary keys
    db_height_history,  \* table height_history, in id order (never pruned)
    raised,             \* exception that left the last call, "none" if it returned
    calls,              \* number of engine calls made so far (bounds the session)
    result              \* the last call: [op, args, value], value "None" for a mutation

vars == <<shelf_layout, gaze_weight, height_history, item_data, gaze_data,
          db_item_data, db_gaze_data, db_height_history, raised, calls, result>>

memory == <<height_history, item_data, gaze_data>>
store == <<db_item_data, db_gaze_data, db_height_history>>
config == <<shelf_layout, gaze_weight>>

----------------------------------------------------------------------------
(* Bounds of the model *)

MaxCalls == 4
MaxHistoryFrames == 2
MaxInputs == 3

(* Program constants *)

reference_height == 175
ReferencePixels == 240
PixelUnit == 11
MinHeight == 100
MaxHeight == 220
history_frames == MaxHistoryFrames
GazeFloor == 50
GazeCeiling == 180
GazeMargin == 10
DefaultGazeLower == 140
DefaultGazeUpper == 170
WeightUnit == 10
sales_weight == 3
interaction_weight == 1

(* Inputs *)

ItemIds == {"x", "y"}
\* 2100/11 px -> 2.2 m, 4620/11 px -> 1.0 m, 2640/11 px -> 1.75 m,
\* 2000/11 px -> 2.31 m, 5250/11 px -> 0.88 m; 0 and -11 are invalid.
PixelHeights == {-11, 0, 2000, 2100, 2640, 4620, 5250}
YPositions == {10, 100, 140, 160}
SaleQuantities == {-1, 3}
RestockQuantities == {10}
Stocks == {5}
InteractionTypes == {"pickup", "dropoff", "touch"}
PrioritySets == SUBSET ItemIds
TallyCounts == {1, 3}
\* counters of an item with priority 10, of one with priority 5, and of one
\* that customers put back (negative priority)
Profiles ==
    { [sales |-> 33, pickups |-> 1, dropoffs |-> 0],
      [sales |-> 17, pickups |-> 0, dropoffs |-> 1],
      [sales |-> 0, pickups |-> 0, dropoffs |-> 2] }

DefaultLayout ==
    << [zone |-> "top", start |-> 160, end |-> 180],
       [zone |-> "upper_middle", start |-> 140, end |-> 160],
       [zone |-> "lower_middle", start |-> 120, end |-> 140],
       [zone |-> "bottom", start |-> 80, end |-> 120] >>

UILayout ==
    << [zone |-> "top", start |-> 170, end |-> 220],
       [zone |-> "upper_middle", start |-> 120, end |-> 170],
       [zone |-> "lower_middle", start |-> 70, end |-> 120],
       [zone |-> "bottom", start |-> 20, end |-> 70] >>

TwoZoneLayout ==
    << [zone |-> "A", start |-> 160, end |-> 180],
       [zone |-> "B", start |-> 80, end |-> 120] >>

OverlapLayout ==
    << [zone |-> "front", start |-> 90, end |-> 150],
       [zone |-> "back", start |-> 130, end |-> 190] >>

----------------------------------------------------------------------------
(* Helpers for the insertion-ordered dict and the tables *)

Range(s) == {s[i] : i \in DOMAIN s}

Zones(layout) == {layout[i].zone : i \in DOMAIN layout}

Keys(rows) == {rows[i].item_id : i \in DOMAIN rows}

IndexOf(rows, item_id) == CHOOSE i \in DOMAIN rows : rows[i].item_id = item_id

Row(rows, item_id) == rows[IndexOf(rows, item_id)]

NewItem(item_id) ==
    [item_id |-> item_id, sales |-> 0, pickups |-> 0, dropoffs |-> 0,
     current_stock |-> 0, position |-> "None"]

\* self.item_data[item_id]: the defaultdict creates a missing key at the end
GetItem(rows, item_id) ==
    IF item_id \in Keys(rows) THEN rows ELSE Append(rows, NewItem(item_id))

RemoveKey(rows, item_id) == SelectSeq(rows, LAMBDA r : r.item_id # item_id)

\* INSERT OR REPLACE INTO item_data: a row with the same primary key is
\* deleted and the new row gets a fresh rowid, i.e. goes to the end
InsertOrReplace(rows, row) == Append(RemoveKey(rows, row.item_id), row)

EmptyTally == [z \in {} |-> 0]

\* self.gaze_data.get(zone, 0)
TallyGet(tally, zone) == IF zone \in DOMAIN tally THEN tally[zone] ELSE 0

TallyPut(tally, zone, count) ==
    [z \in DOMAIN tally \cup {zone} |-> IF z = zone THEN count ELSE tally[z]]

\* mutant: a list that never evicts
DequeAppendUnbounded(d, v, n) == Append(d, v)

\* deque(maxlen = n).append
DequeAppend(d, v, n) ==
    IF n = 0 THEN d
    ELSE IF Len(d) < n THEN Append(d, v)
    ELSE Append(Tail(d), v)

RECURSIVE DequeExtend(_, _, _)
DequeExtend(d, vs, n) ==
    IF vs = <<>> THEN d ELSE DequeExtend(DequeAppend(d, Head(vs), n), Tail(vs), n)

----------------------------------------------------------------------------
(* Calibration and the history buffer *)

calibrate_height(pixel_height) ==
    IF pixel_height <= 0 THEN 0
    ELSE (reference_height * ReferencePixels * PixelUnit) \div pixel_height

\* mutant: the upper bound taken exclusive
AcceptHeightExclusive(actual_height) ==
    MinHeight <= actual_height /\ actual_height < MaxHeight

AcceptHeight(actual_height) ==
    MinHeight <= actual_height /\ actual_height <= MaxHeight

update_height_data(pixel_height) ==
    LET actual_height == calibrate_height(pixel_height) IN
    /\ calls < MaxCalls
    /\ calls' = calls + 1
    /\ raised' = "none"
    /\ IF AcceptHeight(actual_height)
       THEN /\ height_history' = DequeAppend(height_history, actual_height, history_frames)
            /\ db_height_history' = Append(db_height_history, actual_height)
       ELSE UNCHANGED <<height_history, db_height_history>>
    /\ UNCHANGED <<config, item_data, gaze_data, db_item_data, db_gaze_data>>
    /\ result' = [op |-> "update_height_data", args |-> <<pixel_height>>, value |-> "None"]

----------------------------------------------------------------------------
(* Gaze tally *)

\* mutant: the scan does not stop at the first match, the last match wins
LastZone(layout, y_position) ==
    LET hits == {i \in DOMAIN layout :
                    layout[i].start <= y_position /\ y_position <= layout[i].end}
    IN IF hits = {} THEN 0 ELSE CHOOSE i \in hits : \A j \in hits : i >= j

\* index of the first zone, in definition order, whose band contains y; 0 if none
FirstZone(layout, y_position) ==
    LET hits == {i \in DOMAIN layout :
                    layout[i].start <= y_position /\ y_position <= layout[i].end}
    IN IF hits = {} THEN 0 ELSE CHOOSE i \in hits : \A j \in hits : i <= j

update_gaze_data(y_position) ==
    LET i == FirstZone(shelf_layout, y_position) IN
    /\ calls < MaxCalls
    /\ calls' = calls + 1
    /\ raised' = "none"
    /\ IF i # 0
       THEN LET zone == shelf_layout[i].zone
                count == TallyGet(gaze_data, zone) + 1
            IN /\ gaze_data' = TallyPut(gaze_data, zone, count)
               /\ db_gaze_data' = TallyPut(db_gaze_data, zone, count)
       ELSE UNCHANGED <<gaze_data, db_gaze_data>>
    /\ UNCHANGED <<config, height_history, item_data, db_item_data, db_height_history>>
    /\ result' = [op |-> "update_gaze_data", args |-> <<y_position>>, value |-> "None"]

----------------------------------------------------------------------------
(* Inventory and interaction mutations *)

\* the row with the given fields overwritten
SetFields(row, fields) ==
    [f \in DOMAIN row |-> IF f \in DOMAIN fields THEN fields[f] ELSE row[f]]

\* UPDATE item_data SET ... WHERE item_id = ?: changes the row in place when
\* there is one, and nothing otherwise
UpdateWhere(rows, item_id, fields) ==
    [i \in DOMAIN rows |->
        IF rows[i].item_id = item_id THEN SetFields(rows[i], fields) ELSE rows[i]]

\* mutant: the row is written with fresh counters instead of the item's
update_item_status_fresh_row(item_id, stock, position) ==
    LET items == UpdateWhere(GetItem(item_data, item_id), item_id,
                             [current_stock |-> stock, position |-> position])
    IN
    /\ calls < MaxCalls
    /\ calls' = calls + 1
    /\ raised' = "none"
    /\ item_data' = items
    /\ db_item_data' = InsertOrReplace(db_item_data,
            [item_id |-> item_id, sales |-> 0, pickups |-> 0, dropoffs |-> 0,
             current_stock |-> stock, position |-> position])
    /\ UNCHANGED <<config, height_history, gaze_data, db_gaze_data, db_height_history>>
    /\ result' = [op |-> "update_item_status", args |-> <<item_id, stock, position>>, value |-> "None"]

update_item_status(item_id, stock, position) ==
    LET items == UpdateWhere(GetItem(item_data, item_id), item_id,
                             [current_stock |-> stock, position |-> position])
    IN
    /\ calls < MaxCalls
    /\ calls' = calls + 1
    /\ raised' = "none"
    /\ item_data' = items
    /\ db_item_data' = InsertOrReplace(db_item_data,
            [item_id |-> item_id,
             sales |-> Row(items, item_id).sales,
             pickups |-> Row(items, item_id).pickups,
             dropoffs |-> Row(items, item_id).dropoffs,
             current_stock |-> stock,
             position |-> position])
    /\ UNCHANGED <<config, height_history, gaze_data, db_gaze_data, db_height_history>>
    /\ result' = [op |-> "update_item_status", args |-> <<item_id, stock, position>>, value |-> "None"]

\* mutant: every kind other than "dropoff" counts as a pickup
record_interaction_else_pickup(item_id, interaction_type) ==
    LET old == Row(GetItem(item_data, item_id), item_id)
        items == UpdateWhere(GetItem(item_data, item_id), item_id,
                    IF interaction_type = "dropoff" THEN [dropoffs |-> old.dropoffs + 1]
                    ELSE [pickups |-> old.pickups + 1])
    IN
    /\ calls < MaxCalls
    /\ calls' = calls + 1
    /\ raised' = "none"
    /\ item_data' = items
    /\ db_item_data' = UpdateWhere(db_item_data, item_id,
            [pickups |-> Row(items, item_id).pickups,
             dropoffs |-> Row(items, item_id).dropoffs])
    /\ UNCHANGED <<config, height_history, gaze_data, db_gaze_data, db_height_history>>
    /\ result' = [op |-> "record_interaction", args |-> <<item_id, interaction_type>>, value |-> "None"]

record_interaction(item_id, interaction_type) ==
    \* the arguments of the UPDATE read self.item_data[item_id], which creates
    \* the key whatever the interaction type
    LET old == Row(GetItem(item_data, item_id), item_id)
        items == UpdateWhere(GetItem(item_data, item_id), item_id,
                    IF interaction_type = "pickup" THEN [pickups |-> old.pickups + 1]
                    ELSE IF interaction_type = "dropoff" THEN [dropoffs |-> old.dropoffs + 1]
                    ELSE [pickups |-> old.pickups])
    IN
    /\ calls < MaxCalls
    /\ calls' = calls + 1
    /\ raised' = "none"
    /\ item_data' = items
    /\ db_item_data' = UpdateWhere(db_item_data, item_id,
            [pickups |-> Row(items, item_id).pickups,
             dropoffs |-> Row(items, item_id).dropoffs])
    /\ UNCHANGED <<config, height_history, gaze_data, db_gaze_data, db_height_history>>
    /\ result' = [op |-> "record_interaction", args |-> <<item_id, interaction_type>>, value |-> "None"]

\* mutant: a sale that the stock does not cover is refused
record_sale_checked(item_id, quantity) ==
    LET old == Row(GetItem(item_data, item_id), item_id)
        covered == old.current_stock >= quantity
        items == UpdateWhere(GetItem(item_data, item_id), item_id,
                    [sales |-> old.sales + quantity,
                     current_stock |-> old.current_stock - quantity])
    IN
    /\ calls < MaxCalls
    /\ calls' = calls + 1
    /\ raised' = "none"
    /\ item_data' = IF covered THEN items ELSE item_data
    /\ db_item_data' = IF covered
                       THEN UpdateWhere(db_item_data, item_id,
                                [sales |-> Row(items, item_id).sales,
                                 current_stock |-> Row(items, item_id).current_stock])
                       ELSE db_item_data
    /\ UNCHANGED <<config, height_history, gaze_data, db_gaze_data, db_height_history>>
    /\ result' = [op |-> "record_sale", args |-> <<item_id, quantity>>, value |-> "None"]

record_sale(item_id, quantity) ==
    LET old == Row(GetItem(item_data, item_id), item_id)
        items == UpdateWhere(GetItem(item_data, item_id), item_id,
                    [sales |-> old.sales + quantity,
                     current_stock |-> old.current_stock - quantity])
    IN
    /\ calls < MaxCalls
    /\ calls' = calls + 1
    /\ raised' = "none"
    /\ item_data' = items
    /\ db_item_data' = UpdateWhere(db_item_data, item_id,
            [sales |-> Row(items, item_id).sales,
             current_stock |-> Row(items, item_id).current_stock])
    /\ UNCHANGED <<config, height_history, gaze_data, db_gaze_data, db_height_history>>
    /\ result' = [op |-> "record_sale", args |-> <<item_id, quantity>>, value |-> "None"]

restock_item(item_id, quantity) ==
    LET old == Row(GetItem(item_data, item_id), item_id)
        items == UpdateWhere(GetItem(item_data, item_id), item_id,
                    [current_stock |-> old.current_stock + quantity])
    IN
    /\ calls < MaxCalls
    /\ calls' = calls + 1
    /\ raised' = "none"
    /\ item_data' = items
    /\ db_item_data' = UpdateWhere(db_item_data, item_id,
            [current_stock |-> Row(items, item_id).current_stock])
    /\ UNCHANGED <<config, height_history, gaze_data, db_gaze_data, db_height_history>>
    /\ result' = [op |-> "restock_item", args |-> <<item_id, quantity>>, value |-> "None"]

----------------------------------------------------------------------------
(* Exact rationals <<num, den>>, den > 0, for the float computations *)

RatLess(a, b) == a[1] * b[2] < b[1] * a[2]
RatEq(a, b) == a[1] * b[2] = b[1] * a[2]

RECURSIVE GCD(_, _)
GCD(a, b) == IF b = 0 THEN a ELSE GCD(b, a % b)

Abs(a) == IF a < 0 THEN -a ELSE a

\* the same rational in lowest terms
Reduce(r) ==
    LET g == GCD(Abs(r[1]), r[2]) IN <<r[1] \div g, r[2] \div g>>

Max(a, b) == IF a >= b THEN a ELSE b
Min(a, b) == IF a <= b THEN a ELSE b

RECURSIVE SumSeq(_)
SumSeq(s) == IF s = <<>> THEN 0 ELSE Head(s) + SumSeq(Tail(s))

RECURSIVE SumTally(_)
SumTally(tally) ==
    IF DOMAIN tally = {} THEN 0
    ELSE LET z == CHOOSE k \in DOMAIN tally : TRUE
         IN tally[z] + SumTally([k \in DOMAIN tally \ {z} |-> tally[k]])

\* sorted(..., key = ..., reverse = True) on entries [key, value]: descending
\* by key, and stable, so entries with equal keys keep their order
\* mutant: an unstable sort, a later entry goes before earlier equal ones
RECURSIVE InsertDescUnstable(_, _)
InsertDescUnstable(sorted, entry) ==
    IF sorted = <<>> THEN <<entry>>
    ELSE IF ~RatLess(entry.key, Head(sorted).key) THEN <<entry>> \o sorted
    ELSE <<Head(sorted)>> \o InsertDescUnstable(Tail(sorted), entry)

RECURSIVE InsertDesc(_, _)
InsertDesc(sorted, entry) ==
    IF sorted = <<>> THEN <<entry>>
    ELSE IF RatLess(Head(sorted).key, entry.key) THEN <<entry>> \o sorted
    ELSE <<Head(sorted)>> \o InsertDesc(Tail(sorted), entry)

RECURSIVE SortedDesc(_)
SortedDesc(entries) ==
    IF entries = <<>> THEN <<>>
    ELSE InsertDesc(SortedDesc(SubSeq(entries, 1, Len(entries) - 1)),
                    entries[Len(entries)])

Values(entries) == [i \in DOMAIN entries |-> entries[i].value]

----------------------------------------------------------------------------
(* Comfort range and zone scores *)

\* mutant: the margin of the code's comment (0.15 m) instead of the 0.10 m used
GazeRangeOfCommented(num, den) ==
    LET eye_level == 19 * num
        unit == 20 * den
    IN [lower |-> <<Max(GazeFloor * unit, eye_level - 15 * unit), unit>>,
        upper |-> <<Min(GazeCeiling * unit, eye_level + 15 * unit), unit>>]

\* the range for a height of num/den cm: eye level 0.95 * height, +- 0.10 m,
\* clamped to [0.5 m, 1.8 m]; bounds are rationals over 20 * den
GazeRangeOf(num, den) ==
    LET eye_level == 19 * num
        unit == 20 * den
    IN [lower |-> <<Max(GazeFloor * unit, eye_level - GazeMargin * unit), unit>>,
        upper |-> <<Min(GazeCeiling * unit, eye_level + GazeMargin * unit), unit>>]

\* mutant: the lower bound is capped by the upper bound
calculate_gaze_range_ordered(history) ==
    IF history = <<>>
    THEN [lower |-> <<DefaultGazeLower, 1>>, upper |-> <<DefaultGazeUpper, 1>>]
    ELSE LET range == GazeRangeOf(SumSeq(history), Len(history))
         IN [lower |-> <<Min(range.lower[1], range.upper[1]), range.lower[2]>>,
             upper |-> range.upper]

\* calculate_gaze_range(height = None)
calculate_gaze_range(history) ==
    IF history = <<>>
    THEN [lower |-> <<DefaultGazeLower, 1>>, upper |-> <<DefaultGazeUpper, 1>>]
    ELSE GazeRangeOf(SumSeq(history), Len(history))

\* calculate_gaze_range(height): height is <<>> for None and <<h>> for an
\* override of h cm; only None falls back to the buffer (0 is not None)
calculate_gaze_range_height(history, height) ==
    IF height = <<>> THEN calculate_gaze_range(history)
    ELSE GazeRangeOf(height[1], 1)

\* mutant: the overlap is not clamped at 0
OverlapUnclamped(start, end, ideal_lower, ideal_upper) ==
    Min(end, ideal_upper) - Max(start, ideal_lower)

\* length of the overlap of the zone [start, end] with the ideal range
Overlap(start, end, ideal_lower, ideal_upper) ==
    LET overlap_start == Max(start, ideal_lower)
        overlap_end == Min(end, ideal_upper)
    IN Max(0, overlap_end - overlap_start)

\* mutant: the two weights are exchanged
calculate_shelf_scores_swapped(layout, weight, tally, history) ==
    LET total_gaze == SumTally(tally)
        gaze_score(i) ==
            IF total_gaze > 0 THEN <<TallyGet(tally, layout[i].zone), total_gaze>>
            ELSE <<1, Len(layout)>>
        ideal == calculate_gaze_range(history)
        unit == ideal.lower[2]
        ergonomic_score(i) ==
            LET overlap == Overlap(layout[i].start * unit, layout[i].end * unit,
                                   ideal.lower[1], ideal.upper[1])
                zone_height == layout[i].end - layout[i].start
            IN IF zone_height > 0 THEN Reduce(<<overlap, zone_height * unit>>) ELSE <<0, 1>>
        combined(i) ==
            LET g == gaze_score(i)
                e == ergonomic_score(i)
            IN Reduce(<<(WeightUnit - weight) * g[1] * e[2] + weight * e[1] * g[2],
                        WeightUnit * g[2] * e[2]>>)
    IN [z \in Zones(layout) |->
            combined(CHOOSE i \in DOMAIN layout : layout[i].zone = z)]

calculate_shelf_scores(layout, weight, tally, history) ==
    LET total_gaze == SumTally(tally)
        gaze_score(i) ==
            IF total_gaze > 0 THEN <<TallyGet(tally, layout[i].zone), total_gaze>>
            ELSE <<1, Len(layout)>>
        ideal == calculate_gaze_range(history)
        unit == ideal.lower[2]
        ergonomic_score(i) ==
            LET overlap == Overlap(layout[i].start * unit, layout[i].end * unit,
                                   ideal.lower[1], ideal.upper[1])
                zone_height == layout[i].end - layout[i].start
            IN IF zone_height > 0 THEN Reduce(<<overlap, zone_height * unit>>) ELSE <<0, 1>>
        combined(i) ==
            LET g == gaze_score(i)
                e == ergonomic_score(i)
            IN Reduce(<<weight * g[1] * e[2] + (WeightUnit - weight) * e[1] * g[2],
                        WeightUnit * g[2] * e[2]>>)
    IN [z \in Zones(layout) |->
            combined(CHOOSE i \in DOMAIN layout : layout[i].zone = z)]

----------------------------------------------------------------------------
(* Placement recommendation *)

\* mutant: the boost always moves a priority item towards the front, a
\* negative priority is divided by 1.5 instead of multiplied
ItemPriorityBoostUp(row, priority_items) ==
    LET priority == sales_weight * row.sales
                    + interaction_weight * (row.pickups - row.dropoffs)
    IN IF priority_items # {} /\ row.item_id \in priority_items
       THEN IF priority >= 0 THEN <<3 * priority, 2 * WeightUnit>>
            ELSE <<2 * priority, 3 * WeightUnit>>
       ELSE <<2 * priority, 2 * WeightUnit>>

\* priority of an item row, as a rational over 2 * WeightUnit
ItemPriority(row, priority_items) ==
    LET priority == sales_weight * row.sales
                    + interaction_weight * (row.pickups - row.dropoffs)
    IN IF priority_items # {} /\ row.item_id \in priority_items
       THEN <<3 * priority, 2 * WeightUnit>>
       ELSE <<2 * priority, 2 * WeightUnit>>

\* mutant: the capacity without the extra slot
max_items_per_zone_floor(n_items, n_zones) == Max(1, n_items \div n_zones)

max_items_per_zone(n_items, n_zones) == Max(1, (n_items \div n_zones) + 1)

\* mutant: a zone is taken while its count is <= the limit
FirstFreeInclusive(sorted_zones, zone_capacity, limit) ==
    LET free == {k \in DOMAIN sorted_zones : zone_capacity[sorted_zones[k]] <= limit}
    IN IF free = {} THEN 0 ELSE CHOOSE k \in free : \A j \in free : k <= j

\* first zone of sorted_zones whose running count is below the limit; 0 if none
FirstFree(sorted_zones, zone_capacity, limit) ==
    LET free == {k \in DOMAIN sorted_zones : zone_capacity[sorted_zones[k]] < limit}
    IN IF free = {} THEN 0 ELSE CHOOSE k \in free : \A j \in free : k <= j

RECURSIVE Allocate(_, _, _, _, _)
Allocate(sorted_items, sorted_zones, zone_capacity, limit, recommendations) ==
    IF sorted_items = <<>> THEN recommendations
    ELSE LET item_id == Head(sorted_items)
             k == FirstFree(sorted_zones, zone_capacity, limit)
         IN IF k = 0
            THEN Allocate(Tail(sorted_items), sorted_zones, zone_capacity, limit,
                          recommendations)
            ELSE Allocate(Tail(sorted_items), sorted_zones,
                          [zone_capacity EXCEPT ![sorted_zones[k]] = @ + 1], limit,
                          TallyPut(recommendations, item_id, sorted_zones[k]))

ZoneEntries(layout, shelf_scores) ==
    [i \in DOMAIN layout |-> [key |-> shelf_scores[layout[i].zone], value |-> layout[i].zone]]

SortedZones(layout, weight, tally, history) ==
    Values(SortedDesc(ZoneEntries(layout,
                calculate_shelf_scores(layout, weight, tally, history))))

SortedItems(items, priority_items) ==
    Values(SortedDesc([i \in DOMAIN items |->
                [key |-> ItemPriority(items[i], priority_items),
                 value |-> items[i].item_id]]))

recommend_item_positions(layout, weight, tally, history, items, priority_items) ==
    Allocate(SortedItems(items, priority_items),
             SortedZones(layout, weight, tally, history),
             [z \in Zones(layout) |-> 0],
             max_items_per_zone(Len(items), Len(layout)),
             EmptyTally)

\* the recommendations grouped by zone: a zone that got items maps to their
\* ids in the order they were placed (the order of sorted_items)
get_optimized_layout(layout, weight, tally, history, items, priority_items) ==
    LET recommendations == recommend_item_positions(layout, weight, tally, history,
                                                    items, priority_items)
        order == SortedItems(items, priority_items)
    IN [z \in Range(recommendations) |->
            SelectSeq(order, LAMBDA k : k \in DOMAIN recommendations
                                        /\ recommendations[k] = z)]

LowStock == 2

\* np.mean of the buffer as a rational, <<>> for None
AverageHeight(history) ==
    IF history = <<>> THEN <<>> ELSE Reduce(<<SumSeq(history), Len(history)>>)

generate_report(layout, weight, tally, history, items) ==
    [average_customer_height |-> AverageHeight(history),
     optimal_gaze_range |-> calculate_gaze_range(history),
     shelf_scores |-> calculate_shelf_scores(layout, weight, tally, history),
     recommended_layout |-> get_optimized_layout(layout, weight, tally, history, items, {}),
     low_stock_items |->
        [k \in {items[i].item_id : i \in {j \in DOMAIN items : items[j].current_stock <= LowStock}}
            |-> Row(items, k).current_stock]]

----------------------------------------------------------------------------
(* Restart: a new SmartShelfOptimizer on the same database file *)

\* mutant: the buffer keeps the oldest rows of the table
load_data_from_db_oldest ==
    /\ item_data' = db_item_data
    /\ gaze_data' = db_gaze_data
    /\ height_history' = SubSeq(db_height_history, 1,
                                Min(Len(db_height_history), history_frames))

\* load_data_from_db into the freshly constructed (empty) containers
load_data_from_db ==
    /\ item_data' = db_item_data
    /\ gaze_data' = db_gaze_data
    /\ height_history' = DequeExtend(<<>>, db_height_history, history_frames)

Reload ==
    /\ calls < MaxCalls
    /\ calls' = calls + 1
    /\ raised' = "none"
    /\ load_data_from_db
    /\ result' = [op |-> "__init__", args |-> <<>>, value |-> "None"]
    /\ UNCHANGED <<config, store>>

----------------------------------------------------------------------------
(* Construction *)

Configs == { <<DefaultLayout, 6>>, <<OverlapLayout, 6>> }

\* __init__ on a database file without the tables: create_tables, empty state
Init ==
    /\ \E c \in Configs : shelf_layout = c[1] /\ gaze_weight = c[2]
    /\ height_history = <<>>
    /\ item_data = <<>>
    /\ gaze_data = EmptyTally
    /\ db_item_data = <<>>
    /\ db_gaze_data = EmptyTally
    /\ db_height_history = <<>>
    /\ raised = "none"
    /\ calls = 0
    /\ result = [op |-> "__init__", args |-> <<>>, value |-> "None"]

RecordStature == \E pixel_height \in PixelHeights : update_height_data(pixel_height)
RecordGaze == \E y_position \in YPositions : update_gaze_data(y_position)

Positions == {shelf_layout[1].zone, "aisle"}

SetItemStatus ==
    \E item_id \in ItemIds, stock \in Stocks, position \in Positions :
        update_item_status(item_id, stock, position)
RecordInteraction ==
    \E item_id \in ItemIds, interaction_type \in InteractionTypes :
        record_interaction(item_id, interaction_type)
RecordSale ==
    \E item_id \in ItemIds, quantity \in SaleQuantities : record_sale(item_id, quantity)
Restock ==
    \E item_id \in ItemIds, quantity \in RestockQuantities : restock_item(item_id, quantity)

Next ==
    \/ RecordStature
    \/ RecordGaze
    \/ SetItemStatus
    \/ RecordInteraction
    \/ RecordSale
    \/ Restock
    \/ Reload

Spec == Init /\ [][Next]_vars

----------------------------------------------------------------------------
(* Write failures: cursor.execute or conn.commit raises sqlite3.Error.  Every *)
(* mutation changes memory first and writes afterwards, with no try/except,  *)
(* so the exception leaves the method after the in-memory change.            *)

\* mutant: the in-memory change is undone when the write fails
WriteFailsRolledBack(history, items, tally, op, args) ==
    /\ calls < MaxCalls
    /\ calls' = calls + 1
    /\ raised' = "sqlite3.Error"
    /\ UNCHANGED <<memory, config, store>>
    /\ result' = [op |-> op, args |-> args, value |-> "None"]

\* the call op(args) whose in-memory part gave (history, items, tally) and
\* whose write raised: nothing is committed and the exception propagates
WriteFails(history, items, tally, op, args) ==
    /\ calls < MaxCalls
    /\ calls' = calls + 1
    /\ raised' = "sqlite3.Error"
    /\ height_history' = history
    /\ item_data' = items
    /\ gaze_data' = tally
    /\ UNCHANGED <<config, store>>
    /\ result' = [op |-> op, args |-> args, value |-> "None"]

\* a write is attempted only for an accepted sample
update_height_data_fails(pixel_height) ==
    LET actual_height == calibrate_height(pixel_height) IN
    /\ AcceptHeight(actual_height)
    /\ WriteFails(DequeAppend(height_history, actual_height, history_frames),
                  item_data, gaze_data, "update_height_data", <<pixel_height>>)

\* a write is attempted only when a zone contains y
update_gaze_data_fails(y_position) ==
    LET i == FirstZone(shelf_layout, y_position) IN
    /\ i # 0
    /\ WriteFails(height_history, item_data,
                  TallyPut(gaze_data, shelf_layout[i].zone,
                           TallyGet(gaze_data, shelf_layout[i].zone) + 1),
                  "update_gaze_data", <<y_position>>)

update_item_status_fails(item_id, stock, position) ==
    WriteFails(height_history,
               UpdateWhere(GetItem(item_data, item_id), item_id,
                           [current_stock |-> stock, position |-> position]),
               gaze_data, "update_item_status", <<item_id, stock, position>>)

record_interaction_fails(item_id, interaction_type) ==
    LET old == Row(GetItem(item_data, item_id), item_id) IN
    WriteFails(height_history,
               UpdateWhere(GetItem(item_data, item_id), item_id,
                    IF interaction_type = "pickup" THEN [pickups |-> old.pickups + 1]
                    ELSE IF interaction_type = "dropoff" THEN [dropoffs |-> old.dropoffs + 1]
                    ELSE [pickups |-> old.pickups]),
               gaze_data, "record_interaction", <<item_id, interaction_type>>)

record_sale_fails(item_id, quantity) ==
    LET old == Row(GetItem(item_data, item_id), item_id) IN
    WriteFails(height_history,
               UpdateWhere(GetItem(item_data, item_id), item_id,
                    [sales |-> old.sales + quantity,
                     current_stock |-> old.current_stock - quantity]),
               gaze_data, "record_sale", <<item_id, quantity>>)

restock_item_fails(item_id, quantity) ==
    LET old == Row(GetItem(item_data, item_id), item_id) IN
    WriteFails(height_history,
               UpdateWhere(GetItem(item_data, item_id), item_id,
                    [current_stock |-> old.current_stock + quantity]),
               gaze_data, "restock_item", <<item_id, quantity>>)

\* inputs of the sessions with failing writes and of the startup sessions
FaultyItemIds == {"x"}
FaultyPixelHeights == {2100, 2640, 5250}
FaultyYPositions == {10, 140}
FaultyQuantities == {3}
FaultyInteractionTypes == {"pickup", "touch"}

RecordStatureFaulty ==
    \E pixel_height \in FaultyPixelHeights :
        update_height_data(pixel_height) \/ update_height_data_fails(pixel_height)
RecordGazeFaulty ==
    \E y_position \in FaultyYPositions :
        update_gaze_data(y_position) \/ update_gaze_data_fails(y_position)
SetItemStatusFaulty ==
    \E item_id \in FaultyItemIds, stock \in Stocks :
        \/ update_item_status(item_id, stock, shelf_layout[1].zone)
        \/ update_item_status_fails(item_id, stock, shelf_layout[1].zone)
RecordInteractionFaulty ==
    \E item_id \in FaultyItemIds, interaction_type \in FaultyInteractionTypes :
        \/ record_interaction(item_id, interaction_type)
        \/ record_interaction_fails(item_id, interaction_type)
RecordSaleFaulty ==
    \E item_id \in FaultyItemIds, quantity \in FaultyQuantities :
        record_sale(item_id, quantity) \/ record_sale_fails(item_id, quantity)
RestockFaulty ==
    \E item_id \in FaultyItemIds, quantity \in RestockQuantities :
        restock_item(item_id, quantity) \/ restock_item_fails(item_id, quantity)

NextFaulty ==
    \/ RecordStatureFaulty
    \/ RecordGazeFaulty
    \/ SetItemStatusFaulty
    \/ RecordInteractionFaulty
    \/ RecordSaleFaulty
    \/ RestockFaulty
    \/ Reload

SpecFaulty == Init /\ [][NextFaulty]_vars

----------------------------------------------------------------------------
(* Construction on a database file that earlier programs left behind: any    *)
(* subset of the three tables may exist, and an existing table may have rows *)

RequiredTables == {"item_data", "gaze_data", "height_history"}

_check_tables_exist(existing_tables) == RequiredTables \subseteq existing_tables

\* contents a table of the file can have
FileItemTables ==
    { <<>>,
      << [item_id |-> "x", sales |-> 3, pickups |-> 1, dropoffs |-> 0,
          current_stock |-> 5, position |-> "top"] >> }
FileGazeTables(layout) ==
    { EmptyTally, [z \in {layout[FirstZone(layout, 140)].zone} |-> 2] }
FileHeightTables == { <<>>, <<175, 220, 100>> }

\* __init__: load_data_from_db when all three tables exist; otherwise
\* create_tables, whose CREATE TABLE IF NOT EXISTS adds the missing tables
\* and leaves an existing table and its rows alone
InitStartup ==
    /\ \E c \in Configs : shelf_layout = c[1] /\ gaze_weight = c[2]
    /\ \E existing_tables \in SUBSET RequiredTables :
          /\ db_item_data \in FileItemTables
          /\ db_gaze_data \in FileGazeTables(shelf_layout)
          /\ db_height_history \in FileHeightTables
          /\ "item_data" \notin existing_tables => db_item_data = <<>>
          /\ "gaze_data" \notin existing_tables => db_gaze_data = EmptyTally
          /\ "height_history" \notin existing_tables => db_height_history = <<>>
          /\ IF _check_tables_exist(existing_tables)
             THEN /\ item_data = db_item_data
                  /\ gaze_data = db_gaze_data
                  /\ height_history = DequeExtend(<<>>, db_height_history, history_frames)
             ELSE /\ item_data = <<>>
                  /\ gaze_data = EmptyTally
                  /\ height_history = <<>>
          /\ result = [op |-> "__init__", args |-> <<existing_tables>>, value |-> "None"]
    /\ raised = "none"
    /\ calls = 0

RecordGazeStartup == \E y_position \in FaultyYPositions : update_gaze_data(y_position)
SetItemStatusStartup ==
    \E item_id \in FaultyItemIds, stock \in Stocks :
        update_item_status(item_id, stock, shelf_layout[1].zone)
RecordSaleStartup ==
    \E item_id \in FaultyItemIds, quantity \in FaultyQuantities : record_sale(item_id, quantity)

NextStartup ==
    \/ RecordGazeStartup
    \/ SetItemStatusStartup
    \/ RecordSaleStartup
    \/ Reload

SpecStartup == InitStartup /\ [][NextStartup]_vars

----------------------------------------------------------------------------
(* SmartShelfUI: the operation window.  item_id is the text of an editable   *)
(* combobox ("" when nothing is chosen), operation the value of the radio    *)
(* buttons ("sale" for the first, "restock" for the second) and quantity the *)
(* integer in the spinbox, whose text can be edited to any integer.          *)

\* mutant: the sale is forwarded without looking at the stock
execute_operation_unchecked(item_id, operation, quantity) ==
    IF item_id = ""
    THEN /\ result' = [op |-> "execute_operation",
                       args |-> <<item_id, operation, quantity>>, value |-> "no_item"]
         /\ UNCHANGED <<config, memory, store, raised, calls>>
    ELSE IF operation = "sale"
    THEN record_sale(item_id, quantity)
    ELSE restock_item(item_id, quantity)

\* execute_operation: a sale reads the item's current_stock (the defaultdict
\* creates an unknown id) and returns without calling the engine when it is
\* below the quantity; otherwise the engine call is made, and the report
\* that is redrawn afterwards only reads
execute_operation(item_id, operation, quantity) ==
    IF item_id = ""
    THEN /\ result' = [op |-> "execute_operation",
                       args |-> <<item_id, operation, quantity>>, value |-> "no_item"]
         /\ UNCHANGED <<config, memory, store, raised, calls>>
    ELSE IF operation = "sale"
    THEN LET current_stock == Row(GetItem(item_data, item_id), item_id).current_stock IN
         IF current_stock < quantity
         THEN /\ item_data' = GetItem(item_data, item_id)
              /\ result' = [op |-> "execute_operation",
                            args |-> <<item_id, operation, quantity>>,
                            value |-> "rejected"]
              /\ UNCHANGED <<config, height_history, gaze_data, store, raised, calls>>
         ELSE record_sale(item_id, quantity)
    ELSE restock_item(item_id, quantity)

UIItemIds == {"", "x", "y"}
UIOperations == {"sale", "restock"}
UIQuantities == {-1, 1, 3}
UIStocks == {-3, 1, 5}

\* SmartShelfUI.__init__: the engine with the window's layout, loaded from a
\* database in which item x may have a row
InitUI ==
    /\ shelf_layout = UILayout
    /\ gaze_weight = 6
    /\ height_history = <<>>
    /\ gaze_data = EmptyTally
    /\ item_data \in {<<>>} \cup
          { << [item_id |-> "x", sales |-> 0, pickups |-> 0, dropoffs |-> 0,
                current_stock |-> stock, position |-> "top"] >> : stock \in UIStocks }
    /\ db_item_data = item_data
    /\ db_gaze_data = EmptyTally
    /\ db_height_history = <<>>
    /\ raised = "none"
    /\ calls = 0
    /\ result = [op |-> "__init__", args |-> <<>>, value |-> "None"]

ExecuteOperation ==
    \E item_id \in UIItemIds, operation \in UIOperations, quantity \in UIQuantities :
        execute_operation(item_id, operation, quantity)

NextUI == ExecuteOperation

SpecUI == InitUI /\ [][NextUI]_vars

----------------------------------------------------------------------------
(* The read-only operations, applied to engine states drawn from bounded sets *)

CalculateShelfScores ==
    /\ result' = [op |-> "calculate_shelf_scores", args |-> <<>>,
                  value |-> calculate_shelf_scores(shelf_layout, gaze_weight,
                                                   gaze_data, height_history)]
    /\ raised' = "none"
    /\ UNCHANGED <<config, memory, store, calls>>

RecommendItemPositions ==
    \E priority_items \in PrioritySets :
        /\ result' = [op |-> "recommend_item_positions", args |-> <<priority_items>>,
                      value |-> recommend_item_positions(shelf_layout, gaze_weight,
                                    gaze_data, height_history, item_data, priority_items)]
        /\ raised' = "none"
        /\ UNCHANGED <<config, memory, store, calls>>

HeightOverrides == {<<>>, <<0>>, <<175>>}

CalculateGazeRange ==
    \E height \in HeightOverrides :
        /\ result' = [op |-> "calculate_gaze_range", args |-> <<height>>,
                      value |-> calculate_gaze_range_height(height_history, height)]
        /\ raised' = "none"
        /\ UNCHANGED <<config, memory, store, calls>>

\* mutant: the tallies are read with self.gaze_data[zone], which creates the
\* missing keys in the defaultdict
GenerateReportIndexing ==
    /\ result' = [op |-> "generate_report", args |-> <<>>,
                  value |-> generate_report(shelf_layout, gaze_weight, gaze_data,
                                            height_history, item_data)]
    /\ raised' = "none"
    /\ gaze_data' = [z \in Zones(shelf_layout) \cup DOMAIN gaze_data |->
                        TallyGet(gaze_data, z)]
    /\ UNCHANGED <<config, height_history, item_data, store, calls>>

\* every read in generate_report and in the methods it calls is a .get, an
\* iteration or a truth test: no key is created, nothing is written
GenerateReport ==
    /\ result' = [op |-> "generate_report", args |-> <<>>,
                  value |-> generate_report(shelf_layout, gaze_weight, gaze_data,
                                            height_history, item_data)]
    /\ raised' = "none"
    /\ UNCHANGED <<config, memory, store, calls>>

AllConfigs == Configs \cup { <<UILayout, 6>>, <<TwoZoneLayout, 10>>, <<TwoZoneLayout, 0>> }
ShelfItemIds == ItemIds \cup {"z"}

\* the values update_height_data can put into the buffer
StatureSamples ==
    {calibrate_height(p) : p \in {q \in PixelHeights : AcceptHeight(calibrate_height(q))}}

HistoryBuffers(n) == [1..n -> StatureSamples]

Tallies(layout, n) ==
    UNION {[K -> TallyCounts] : K \in {Z \in SUBSET Zones(layout) : Cardinality(Z) = n}}

ItemTables(layout, n) ==
    LET orders == {o \in [1..n -> ShelfItemIds] : \A i, j \in 1..n : i # j => o[i] # o[j]}
    IN UNION {
        { [i \in 1..n |->
              [item_id |-> o[i], sales |-> f[i].sales, pickups |-> f[i].pickups,
               dropoffs |-> f[i].dropoffs, current_stock |-> 5,
               position |-> layout[1].zone]] : f \in [1..n -> Profiles] }
        : o \in orders }

\* an engine whose database mirrors a state that earlier sessions built up:
\* h stature samples, g zones looked at and n items, h + g + n <= MaxInputs
InitScoring ==
    /\ \E c \in AllConfigs : shelf_layout = c[1] /\ gaze_weight = c[2]
    /\ \E h \in 0..Min(history_frames, MaxInputs) :
        \E g \in 0..Min(Len(shelf_layout), MaxInputs - h) :
        \E n \in 0..Min(Cardinality(ShelfItemIds), MaxInputs - h - g) :
            /\ height_history \in HistoryBuffers(h)
            /\ gaze_data \in Tallies(shelf_layout, g)
            /\ item_data \in ItemTables(shelf_layout, n)
    /\ db_height_history = height_history
    /\ db_gaze_data = gaze_data
    /\ db_item_data = item_data
    /\ raised = "none"
    /\ calls = 0
    /\ result = [op |-> "__init__", args |-> <<>>, value |-> "None"]

NextScoring ==
    \/ CalculateShelfScores
    \/ RecommendItemPositions
    \/ CalculateGazeRange
    \/ GenerateReport

SpecScoring == InitScoring /\ [][NextScoring]_vars

----------------------------------------------------------------------------
(* Claims *)

ItemOps == {"update_item_status", "record_sale", "restock_item", "record_interaction"}

\* C1: after item mutations that all returned normally, the item table holds
\* for every in-memory item a row with the same sales, pickups, dropoffs,
\* current_stock and position (so a reload gives the same items).
C1_ItemTableMirrorsMemory ==
    \A i \in DOMAIN item_data :
        \E j \in DOMAIN db_item_data : db_item_data[j] = item_data[i]

\* C2: every key of gaze_data and every item position that is set names a
\* configured zone, in memory and in the database (an unknown position is
\* rejected by update_item_status instead of being stored).
C2_ZoneNamesConfigured ==
    /\ DOMAIN gaze_data \subseteq Zones(shelf_layout)
    /\ DOMAIN db_gaze_data \subseteq Zones(shelf_layout)
    /\ \A i \in DOMAIN item_data :
          item_data[i].position # "None" => item_data[i].position \in Zones(shelf_layout)
    /\ \A j \in DOMAIN db_item_data :
          db_item_data[j].position # "None" => db_item_data[j].position \in Zones(shelf_layout)

\* C4: within a session no call of record_sale, restock_item,
\* record_interaction or update_item_status, whatever its integer quantity,
\* lowers an item's sales, pickups or dropoffs, and they stay >= 0.
C4_CountersNeverDecrease ==
    [][result'.op \in ItemOps =>
          /\ \A i \in DOMAIN item_data :
                /\ item_data[i].item_id \in Keys(item_data')
                /\ Row(item_data', item_data[i].item_id).sales >= item_data[i].sales
                /\ Row(item_data', item_data[i].item_id).pickups >= item_data[i].pickups
                /\ Row(item_data', item_data[i].item_id).dropoffs >= item_data[i].dropoffs
          /\ \A j \in DOMAIN item_data' :
                /\ item_data'[j].sales >= 0
                /\ item_data'[j].pickups >= 0
                /\ item_data'[j].dropoffs >= 0]_vars

LastN(s, n) == SubSeq(s, Len(s) - Min(n, Len(s)) + 1, Len(s))

Placed(recommendations, zone) ==
    {k \in DOMAIN recommendations : recommendations[k] = zone}

\* the case of C3: exactly the items x (priority 10) and y (priority 5), and
\* recommend_item_positions has just returned
C3_Items ==
    /\ result.op = "recommend_item_positions"
    /\ Len(item_data) = 2
    /\ Keys(item_data) = {"x", "y"}
    /\ RatEq(ItemPriority(Row(item_data, "x"), result.args[1]), <<10, 1>>)
    /\ RatEq(ItemPriority(Row(item_data, "y"), result.args[1]), <<5, 1>>)

ZonesByScore == SortedZones(shelf_layout, gaze_weight, gaze_data, height_history)

\* C3 as stated: with exactly two items x (priority 10) and y (priority 5)
\* and exactly two zones ordered [A, B] by score, every call of
\* recommend_item_positions returns x -> A, y -> B (one item per zone).
C3_OneItemPerZone ==
    C3_Items /\ Len(shelf_layout) = 2 =>
        /\ DOMAIN result.value = {"x", "y"}
        /\ result.value["x"] = ZonesByScore[1]
        /\ result.value["y"] = ZonesByScore[2]

\* C3 amended: with those two items and zones ordered [A, B, ...] by score,
\* every call returns x -> A, and y -> B when there are more than two zones
\* (capacity 1) but y -> A when there are exactly two (capacity 2).
C3_SecondItemFollowsCapacity ==
    C3_Items =>
        /\ DOMAIN result.value = {"x", "y"}
        /\ result.value["x"] = ZonesByScore[1]
        /\ result.value["y"] =
              IF Len(shelf_layout) > 2 THEN ZonesByScore[2] ELSE ZonesByScore[1]

\* two zones A, B: y, although listed first, is placed after x, and in A too
C3_Witness ==
    /\ C3_Items
    /\ shelf_layout = TwoZoneLayout
    /\ ZonesByScore = <<"A", "B">>
    /\ item_data[1].item_id = "y"
    /\ result.value = [k \in {"x", "y"} |-> "A"]

Distinct(s) == \A i, j \in DOMAIN s : i # j => s[i] # s[j]

\* C5: the buffer never holds more than history_frames samples, and it is
\* exactly the most recent min(history_frames, number accepted) accepted
\* samples in insertion order (the table lists every accepted sample).
C5_BufferIsMostRecent ==
    /\ Len(height_history) <= history_frames
    /\ height_history = LastN(db_height_history, history_frames)

\* history_frames + 1 distinct accepted values went in: the first one is gone
C5_Witness ==
    /\ result.op = "update_height_data"
    /\ Len(db_height_history) = history_frames + 1
    /\ Distinct(db_height_history)
    /\ height_history = Tail(db_height_history)
    /\ db_height_history[1] \notin Range(height_history)

\* C6: update_height_data appends to the buffer and to the table iff the
\* calibrated value m satisfies 1.0 <= m <= 2.2 (inclusive); any other input,
\* including every pixel_height <= 0 (calibrated to exactly 0), changes
\* nothing and raises nothing; every sample in the buffer lies in [1.0, 2.2].
C6_StatureAcceptance ==
    /\ [](\A i \in DOMAIN height_history :
            MinHeight <= height_history[i] /\ height_history[i] <= MaxHeight)
    /\ [][result'.op = "update_height_data" =>
            LET m == calibrate_height(result'.args[1]) IN
            /\ raised' = "none"
            /\ result'.args[1] <= 0 => m = 0
            /\ UNCHANGED <<config, item_data, gaze_data, db_item_data, db_gaze_data>>
            /\ IF MinHeight <= m /\ m <= MaxHeight
               THEN /\ height_history' # <<>>
                    /\ height_history'[Len(height_history')] = m
                    /\ db_height_history' = Append(db_height_history, m)
               ELSE UNCHANGED <<height_history, db_height_history>>]_vars

\* both boundary values were accepted and a non-positive measurement was dropped
C6_Witness ==
    /\ result.op = "update_height_data"
    /\ result.args[1] <= 0
    /\ height_history = <<MinHeight, MaxHeight>>
    /\ db_height_history = height_history

\* indexes of the zones whose band contains y, both ends included
Containing(layout, y) == {i \in DOMAIN layout : layout[i].start <= y /\ y <= layout[i].end}

\* C7: update_gaze_data adds exactly 1 to the tally of the first zone in
\* definition order that contains y and leaves every other tally, the items
\* and the buffer unchanged; when no zone contains y nothing changes and
\* nothing is raised.  No tally ever decreases or is negative.
C7_GazeFirstZoneOnly ==
    /\ [](\A z \in DOMAIN gaze_data : gaze_data[z] >= 0)
    /\ [][/\ \A z \in DOMAIN gaze_data :
                z \in DOMAIN gaze_data' /\ gaze_data'[z] >= gaze_data[z]
          /\ result'.op = "update_gaze_data" =>
                LET hits == Containing(shelf_layout, result'.args[1]) IN
                /\ raised' = "none"
                /\ UNCHANGED <<config, item_data, height_history,
                               db_item_data, db_height_history>>
                /\ IF hits = {}
                   THEN UNCHANGED <<gaze_data, db_gaze_data>>
                   ELSE LET first == CHOOSE i \in hits : \A j \in hits : i <= j IN
                        \A z \in Zones(shelf_layout) \cup DOMAIN gaze_data
                                 \cup DOMAIN gaze_data' :
                            TallyGet(gaze_data', z) =
                                TallyGet(gaze_data, z)
                                + (IF z = shelf_layout[first].zone THEN 1 ELSE 0)]_vars

\* a position inside two overlapping zones was counted for the earlier one only
C7_Witness ==
    /\ result.op = "update_gaze_data"
    /\ Cardinality(Containing(shelf_layout, result.args[1])) = 2
    /\ shelf_layout = OverlapLayout
    /\ gaze_data = [z \in {"front"} |-> 1]

\* C8: recommend_item_positions assigns every known item to exactly one
\* configured zone and puts at most max(1, floor(items / zones) + 1) items
\* into any zone.
C8_EveryItemPlacedWithinCapacity ==
    result.op = "recommend_item_positions" =>
        /\ DOMAIN result.value = Keys(item_data)
        /\ \A k \in DOMAIN result.value : result.value[k] \in Zones(shelf_layout)
        /\ \A z \in Zones(shelf_layout) :
              Cardinality(Placed(result.value, z))
                  <= Max(1, (Len(item_data) \div Len(shelf_layout)) + 1)

\* three items on two zones: the best zone is filled to the capacity of 2
C8_Witness ==
    /\ result.op = "recommend_item_positions"
    /\ Len(item_data) = 3
    /\ Len(shelf_layout) = 2
    /\ Cardinality(Placed(result.value, ZonesByScore[1])) = 2
    /\ Cardinality(Placed(result.value, ZonesByScore[2])) = 1

\* C9: every value returned by calculate_shelf_scores lies in [0, 1],
\* whatever the tallies and the buffer (clamped and inverted ranges included).
C9_ScoresInUnitInterval ==
    result.op = "calculate_shelf_scores" =>
        /\ DOMAIN result.value = Zones(shelf_layout)
        /\ \A z \in DOMAIN result.value :
              /\ result.value[z][2] > 0
              /\ 0 <= result.value[z][1]
              /\ result.value[z][1] <= result.value[z][2]

\* a buffer whose mean (2.2 m) gives the inverted range (1.99, 1.8): every
\* score is below 1 / zone count, so the scores do not sum to 1
C9_Witness ==
    /\ result.op = "calculate_shelf_scores"
    /\ height_history = <<MaxHeight>>
    /\ RatLess(calculate_gaze_range(height_history).upper,
               calculate_gaze_range(height_history).lower)
    /\ \A z \in DOMAIN result.value : RatLess(result.value[z], <<1, Len(shelf_layout)>>)

\* C10: an engine rebuilt from the database has the same gaze tallies, and
\* its buffer is the most recent min(history_frames, rows) rows of the
\* height_history table in id order, which is the buffer before the restart.
C10_ReloadRestoresSensing ==
    [][result'.op = "__init__" =>
          /\ gaze_data' = gaze_data
          /\ gaze_data' = db_gaze_data
          /\ height_history' = height_history
          /\ height_history' = LastN(db_height_history, history_frames)]_vars

\* a restart with more rows in the table than the buffer holds
C10_Witness ==
    /\ result.op = "__init__"
    /\ calls > 0
    /\ Len(db_height_history) > history_frames
    /\ Len(height_history) = history_frames

\* the row of an item as the defaultdict gives it: the default row if absent
ItemView(rows, item_id) ==
    IF item_id \in Keys(rows) THEN Row(rows, item_id) ELSE NewItem(item_id)

\* the rows of all items other than item_id are the same, at the same places
OtherItemsUnchanged(item_id) ==
    /\ Keys(item_data') = Keys(item_data) \cup {item_id}
    /\ \A i \in DOMAIN item_data :
          item_data[i].item_id # item_id => (i \in DOMAIN item_data' /\ item_data'[i] = item_data[i])

\* C11: record_sale(item, q) adds q to the item's sales and subtracts q from
\* its current_stock without a sufficiency check (the stock may go negative),
\* restock_item(item, q) adds q to current_stock; both leave the item's
\* pickups, dropoffs and position, all other items, the gaze tallies and the
\* buffer unchanged.
C11_SaleAndRestockArithmetic ==
    [][result'.op \in {"record_sale", "restock_item"} =>
          LET item_id == result'.args[1]
              q == result'.args[2]
              old == ItemView(item_data, item_id)
              new == ItemView(item_data', item_id)
          IN /\ raised' = "none"
             /\ item_id \in Keys(item_data')
             /\ new.sales = old.sales + (IF result'.op = "record_sale" THEN q ELSE 0)
             /\ new.current_stock =
                   old.current_stock + (IF result'.op = "record_sale" THEN -q ELSE q)
             /\ new.pickups = old.pickups
             /\ new.dropoffs = old.dropoffs
             /\ new.position = old.position
             /\ OtherItemsUnchanged(item_id)
             /\ UNCHANGED <<gaze_data, height_history>>]_vars

\* stock 5, a sale of 3 and a restock of 10 give stock 12 and sales 3, while
\* a sale of 3 on an item without stock left it at -3
C11_Witness ==
    /\ result.op = "restock_item"
    /\ result.args = <<"x", 10>>
    /\ Keys(item_data) = {"x", "y"}
    /\ Row(item_data, "x").current_stock = 12
    /\ Row(item_data, "x").sales = 3
    /\ Row(item_data, "y").current_stock = -3
    /\ Row(item_data, "y").sales = 3

\* the in-memory effect of the call result' on the item it names
ItemEffectKept ==
    LET item_id == result'.args[1]
        old == ItemView(item_data, item_id)
        new == ItemView(item_data', item_id)
        op == result'.op
    IN /\ item_id \in Keys(item_data')
       /\ OtherItemsUnchanged(item_id)
       /\ new.sales = old.sales + (IF op = "record_sale" THEN result'.args[2] ELSE 0)
       /\ new.current_stock =
             IF op = "record_sale" THEN old.current_stock - result'.args[2]
             ELSE IF op = "restock_item" THEN old.current_stock + result'.args[2]
             ELSE IF op = "update_item_status" THEN result'.args[2]
             ELSE old.current_stock
       /\ new.position =
             IF op = "update_item_status" THEN result'.args[3] ELSE old.position
       /\ new.pickups = old.pickups
             + (IF op = "record_interaction" /\ result'.args[2] = "pickup" THEN 1 ELSE 0)
       /\ new.dropoffs = old.dropoffs
             + (IF op = "record_interaction" /\ result'.args[2] = "dropoff" THEN 1 ELSE 0)

\* C12: when the write of a mutation fails, the call raises to its caller,
\* the in-memory change it made is kept exactly once (no rollback, no retry)
\* and the tables are as before the call.
C12_FailedWriteKeepsMemoryOnly ==
    [][raised' # "none" =>
          /\ UNCHANGED store
          /\ calls' = calls + 1
          /\ result'.op \in ItemOps \cup {"update_height_data", "update_gaze_data"}
          /\ result'.op \in ItemOps =>
                ItemEffectKept /\ UNCHANGED <<height_history, gaze_data>>
          /\ result'.op = "update_height_data" =>
                /\ height_history' # <<>>
                /\ height_history'[Len(height_history')] = calibrate_height(result'.args[1])
                /\ Len(height_history') = Min(history_frames, Len(height_history) + 1)
                /\ UNCHANGED <<item_data, gaze_data>>
          /\ result'.op = "update_gaze_data" =>
                /\ \E z \in Zones(shelf_layout) :
                      /\ DOMAIN gaze_data' = DOMAIN gaze_data \cup {z}
                      /\ gaze_data'[z] = TallyGet(gaze_data, z) + 1
                      /\ \A o \in DOMAIN gaze_data \ {z} : gaze_data'[o] = gaze_data[o]
                /\ UNCHANGED <<item_data, height_history>>]_vars

\* a sale whose write failed: the caller got the error, memory counts the
\* sale and the row written earlier still shows the state before it
C12_Witness ==
    /\ raised = "sqlite3.Error"
    /\ result.op = "record_sale"
    /\ result.args = <<"x", 3>>
    /\ "x" \in Keys(db_item_data)
    /\ Row(item_data, "x").sales = 3
    /\ Row(item_data, "x").current_stock = 2
    /\ Row(db_item_data, "x").sales = 0
    /\ Row(db_item_data, "x").current_stock = 5

ReadOps == {"calculate_gaze_range", "calculate_shelf_scores",
            "recommend_item_positions", "generate_report"}

\* C13: calculate_gaze_range, calculate_shelf_scores, recommend_item_positions
\* and generate_report leave the engine state and the tables unchanged (no
\* item and no tally entry is created), and calculate_shelf_scores and
\* recommend_item_positions return the same result when called again with
\* the same arguments and no mutation in between.
C13_ReadsChangeNothing ==
    [][result'.op \in ReadOps =>
          /\ raised' = "none"
          /\ UNCHANGED <<config, memory, store>>
          /\ DOMAIN gaze_data' = DOMAIN gaze_data
          /\ Keys(item_data') = Keys(item_data)
          /\ (/\ result'.op \in {"calculate_shelf_scores", "recommend_item_positions"}
              /\ result.op = result'.op
              /\ result.args = result'.args) => result'.value = result.value]_vars

\* a report on an engine with items, where fewer zones were looked at than
\* are configured: the tally still has only those keys
C13_Witness ==
    /\ result.op = "generate_report"
    /\ item_data # <<>>
    /\ DOMAIN gaze_data # {}
    /\ DOMAIN gaze_data # Zones(shelf_layout)
    /\ gaze_data = db_gaze_data
    /\ item_data = db_item_data
    /\ DOMAIN result.value.recommended_layout # {}

RatMax(a, b) == IF RatLess(a, b) THEN b ELSE a
RatMin(a, b) == IF RatLess(b, a) THEN b ELSE a

RatAdd(a, b) == Reduce(<<a[1] * b[2] + b[1] * a[2], a[2] * b[2]>>)
RatSub(a, b) == Reduce(<<a[1] * b[2] - b[1] * a[2], a[2] * b[2]>>)
RatMul(a, b) == Reduce(<<a[1] * b[1], a[2] * b[2]>>)

\* tally(zone) / totalTally, or 1 / zoneCount when nothing was tallied
GazeShare(zone) ==
    LET total == SumTally(gaze_data) IN
    IF total > 0 THEN <<TallyGet(gaze_data, zone), total>>
    ELSE <<1, Len(shelf_layout)>>

\* length of the overlap of the band [start, end] with the comfort range,
\* divided by the span of the band
ErgonomicShare(start, end) ==
    LET range == calculate_gaze_range(height_history)
        lo == RatMax(<<start, 1>>, range.lower)
        hi == RatMin(<<end, 1>>, range.upper)
    IN IF RatLess(lo, hi) THEN RatMul(RatSub(hi, lo), <<1, end - start>>) ELSE <<0, 1>>

\* C14: for every zone calculate_shelf_scores returns
\* gaze_weight * gazeScore + (1 - gaze_weight) * ergonomicScore, where
\* gazeScore is tally / total when total > 0 and 1 / zone count otherwise,
\* and ergonomicScore is the overlap of the zone band with the comfort range
\* divided by the zone's span (0 without overlap).
C14_CombinedScoreFormula ==
    result.op = "calculate_shelf_scores" =>
        \A i \in DOMAIN shelf_layout :
            RatEq(result.value[shelf_layout[i].zone],
                  RatAdd(RatMul(<<gaze_weight, WeightUnit>>,
                                GazeShare(shelf_layout[i].zone)),
                         RatMul(<<WeightUnit - gaze_weight, WeightUnit>>,
                                ErgonomicShare(shelf_layout[i].start, shelf_layout[i].end))))

\* gaze_weight 1, zones A = (1.6, 1.8), B = (0.8, 1.2), tallies A = 3, B = 1:
\* the scores are A = 0.75, B = 0.25
C14_Witness ==
    /\ result.op = "calculate_shelf_scores"
    /\ shelf_layout = TwoZoneLayout
    /\ gaze_weight = WeightUnit
    /\ gaze_data = [z \in {"A", "B"} |-> IF z = "A" THEN 3 ELSE 1]
    /\ result.value = [z \in {"A", "B"} |-> IF z = "A" THEN <<3, 4>> ELSE <<1, 4>>]

\* place of entry i when keys is ordered descending, ties in index order
RankDesc(keys, i) ==
    1 + Cardinality({j \in DOMAIN keys :
                        \/ RatLess(keys[i], keys[j])
                        \/ (RatEq(keys[i], keys[j]) /\ j < i)})

\* the greedy reference on zone scores and item priorities: the item of
\* rank r goes to the zone of rank ceil(r / capacity)
GreedyReference(zone_keys, item_keys, capacity, recommendations) ==
    /\ DOMAIN recommendations = Keys(item_data)
    /\ \A i \in DOMAIN item_keys :
          \E j \in DOMAIN zone_keys :
              /\ RankDesc(zone_keys, j) = ((RankDesc(item_keys, i) - 1) \div capacity) + 1
              /\ recommendations[item_data[i].item_id] = shelf_layout[j].zone
    /\ \A a, b \in DOMAIN item_keys :
          RankDesc(item_keys, a) < RankDesc(item_keys, b) =>
              \A j, k \in DOMAIN zone_keys :
                  (/\ recommendations[item_data[a].item_id] = shelf_layout[j].zone
                   /\ recommendations[item_data[b].item_id] = shelf_layout[k].zone)
                  => RankDesc(zone_keys, j) <= RankDesc(zone_keys, k)

ZoneScoreKeys ==
    LET scores == calculate_shelf_scores(shelf_layout, gaze_weight, gaze_data, height_history)
    IN [j \in DOMAIN shelf_layout |-> scores[shelf_layout[j].zone]]

\* C15: recommend_item_positions equals the single-pass greedy reference:
\* zones by descending score with ties in configured order, items by
\* descending priority with ties in first-reference order, each item to the
\* first zone in score order with room; so an item that precedes another in
\* priority order is never in a zone later in score order than the other's.
C15_GreedyPlacement ==
    result.op = "recommend_item_positions" =>
        GreedyReference(ZoneScoreKeys,
                        [i \in DOMAIN item_data |-> ItemPriority(item_data[i], result.args[1])],
                        Max(1, (Len(item_data) \div Len(shelf_layout)) + 1),
                        result.value)

\* three items of equal priority on the default shelf without sensing data:
\* they keep their first-reference order (z first) and take upper_middle,
\* top and lower_middle, which ties with bottom and is configured before it
C15_Witness ==
    /\ result.op = "recommend_item_positions"
    /\ shelf_layout = DefaultLayout
    /\ gaze_data = EmptyTally
    /\ height_history = <<>>
    /\ Len(item_data) = 3
    /\ item_data[1].item_id = "z"
    /\ \A i \in DOMAIN item_data :
          RatEq(ItemPriority(item_data[i], result.args[1]), <<10, 1>>)
    /\ result.value[item_data[1].item_id] = "upper_middle"
    /\ result.value[item_data[2].item_id] = "top"
    /\ result.value[item_data[3].item_id] = "lower_middle"

\* salesWeight * sales + interactionWeight * (pickups - dropoffs), in tenths
BasePriority(row) == 3 * row.sales + (row.pickups - row.dropoffs)

PlaceOf(s, v) == CHOOSE i \in DOMAIN s : s[i] = v

\* C17: the priority that ranks an item is sales_weight * sales +
\* interaction_weight * (pickups - dropoffs), times 1.5 exactly when the item
\* is in the priority set; it may be negative, a negative item ranks below
\* every item with non-negative priority, and for a negative base priority
\* membership in the priority set makes it more negative.
C17_PriorityFormula ==
    result.op = "recommend_item_positions" =>
        LET P == result.args[1]
            order == SortedItems(item_data, P)
            prio(i) == ItemPriority(item_data[i], P)
        IN /\ \A i \in DOMAIN item_data :
                /\ RatEq(prio(i),
                         IF item_data[i].item_id \in P
                         THEN <<3 * BasePriority(item_data[i]), 2 * WeightUnit>>
                         ELSE <<BasePriority(item_data[i]), WeightUnit>>)
                /\ (BasePriority(item_data[i]) < 0 /\ item_data[i].item_id \in P) =>
                      RatLess(prio(i), <<BasePriority(item_data[i]), WeightUnit>>)
           /\ \A a, b \in DOMAIN item_data :
                (~RatLess(prio(a), <<0, 1>>) /\ RatLess(prio(b), <<0, 1>>)) =>
                    /\ PlaceOf(order, item_data[a].item_id)
                          < PlaceOf(order, item_data[b].item_id)
                    /\ PlaceOf(ZonesByScore, result.value[item_data[a].item_id])
                          <= PlaceOf(ZonesByScore, result.value[item_data[b].item_id])

\* an item customers put back twice (base priority -0.2), first referenced
\* and in the priority set: priority -0.3, placed after the other item and
\* in the second-best zone
C17_Witness ==
    /\ result.op = "recommend_item_positions"
    /\ Len(item_data) = 2
    /\ Len(shelf_layout) > 2
    /\ item_data[1].item_id \in result.args[1]
    /\ RatEq(ItemPriority(item_data[1], result.args[1]), <<-3, 10>>)
    /\ ~RatLess(ItemPriority(item_data[2], result.args[1]), <<0, 1>>)
    /\ result.value[item_data[1].item_id] = ZonesByScore[2]
    /\ result.value[item_data[2].item_id] = ZonesByScore[1]

\* C18 as stated: at startup, if all three tables exist the engine state is
\* the content of the tables; in every other case (no table, or only some of
\* them, possibly with rows) the engine state is empty and afterwards all
\* three tables are empty, so memory and tables agree in the initial state.
C18_StartupAgreesWithStore ==
    (calls = 0 /\ result.op = "__init__") =>
        IF RequiredTables \subseteq result.args[1]
        THEN /\ item_data = db_item_data
             /\ gaze_data = db_gaze_data
             /\ height_history = LastN(db_height_history, history_frames)
        ELSE /\ item_data = <<>> /\ db_item_data = <<>>
             /\ gaze_data = EmptyTally /\ db_gaze_data = EmptyTally
             /\ height_history = <<>> /\ db_height_history = <<>>

\* C19: record_interaction(item, kind) adds exactly 1 to the item's pickups
\* for kind "pickup" and exactly 1 to its dropoffs for kind "dropoff", and
\* leaves the other counter, sales, current_stock, position and all other
\* items unchanged; with any other kind no counter of any item changes.
C19_InteractionCounters ==
    [][result'.op = "record_interaction" =>
          LET item_id == result'.args[1]
              kind == result'.args[2]
              old == ItemView(item_data, item_id)
              new == ItemView(item_data', item_id)
          IN /\ raised' = "none"
             /\ new.pickups = old.pickups + (IF kind = "pickup" THEN 1 ELSE 0)
             /\ new.dropoffs = old.dropoffs + (IF kind = "dropoff" THEN 1 ELSE 0)
             /\ new.sales = old.sales
             /\ new.current_stock = old.current_stock
             /\ new.position = old.position
             /\ OtherItemsUnchanged(item_id)
             /\ kind \notin {"pickup", "dropoff"} =>
                   \A k \in Keys(item_data') :
                       /\ ItemView(item_data', k).sales = ItemView(item_data, k).sales
                       /\ ItemView(item_data', k).pickups = ItemView(item_data, k).pickups
                       /\ ItemView(item_data', k).dropoffs = ItemView(item_data, k).dropoffs]_vars

\* after a pickup and a dropoff of x, a "touch" of x left both counters at 1
C19_Witness ==
    /\ result.op = "record_interaction"
    /\ result.args = <<"x", "touch">>
    /\ Row(item_data, "x").pickups = 1
    /\ Row(item_data, "x").dropoffs = 1
    /\ Row(item_data, "x").sales = 0

\* C20: for every item that has a row in the item table, after every
\* record_sale, restock_item, record_interaction or update_item_status that
\* returned normally the row equals the in-memory item in all five fields;
\* update_item_status overwrites only current_stock and position in memory
\* and writes the full row with the item's sales, pickups and dropoffs.
C20_RowEqualsMemory ==
    /\ [](\A j \in DOMAIN db_item_data :
            /\ db_item_data[j].item_id \in Keys(item_data)
            /\ Row(item_data, db_item_data[j].item_id) = db_item_data[j])
    /\ [][result'.op = "update_item_status" =>
            LET item_id == result'.args[1]
                old == ItemView(item_data, item_id)
                new == ItemView(item_data', item_id)
            IN /\ new = [old EXCEPT !.current_stock = result'.args[2],
                                    !.position = result'.args[3]]
               /\ item_id \in Keys(db_item_data')
               /\ Row(db_item_data', item_id) = new
               /\ Range(db_item_data') \ {new} =
                     {row \in Range(db_item_data) : row.item_id # item_id}]_vars

\* x was sold and picked up before it got a row: update_item_status wrote
\* the row with sales 3 and pickups 1, equal to the in-memory item
C20_Witness ==
    /\ result.op = "update_item_status"
    /\ result.args[1] = "x"
    /\ "x" \in Keys(db_item_data)
    /\ Row(db_item_data, "x") = Row(item_data, "x")
    /\ Row(db_item_data, "x").sales = 3
    /\ Row(db_item_data, "x").pickups = 1
    /\ Row(db_item_data, "x").current_stock = 5

ItemOrder(rows) == [i \in DOMAIN rows |-> rows[i].item_id]

\* C21 as stated: when every in-memory item has a row in the item table,
\* an engine rebuilt from the database lists the items in the same order as
\* before the restart and recommend_item_positions returns the same mapping
\* as before it, for every priority set, items of equal priority included.
C21_ReloadKeepsRecommendation ==
    [][(result'.op = "__init__" /\ Keys(item_data) \subseteq Keys(db_item_data)) =>
          /\ ItemOrder(item_data') = ItemOrder(item_data)
          /\ \A priority_items \in PrioritySets :
                recommend_item_positions(shelf_layout', gaze_weight', gaze_data',
                                         height_history', item_data', priority_items)
                = recommend_item_positions(shelf_layout, gaze_weight, gaze_data,
                                           height_history, item_data, priority_items)]_vars

\* C22: a sale issued through execute_operation reaches record_sale only
\* when the item's current_stock >= the quantity, so it never leaves
\* current_stock below 0; a sale rejected for insufficient stock changes no
\* counter or stock of any item and writes nothing to the tables.
C22_SaleGatedByStock ==
    [][/\ result'.op = "record_sale" =>
            /\ ItemView(item_data, result'.args[1]).current_stock >= result'.args[2]
            /\ ItemView(item_data', result'.args[1]).current_stock >= 0
       /\ (result'.op = "execute_operation" /\ result'.value = "rejected") =>
            /\ result'.args[2] = "sale"
            /\ ItemView(item_data, result'.args[1]).current_stock < result'.args[3]
            /\ \A k \in Keys(item_data) \cup Keys(item_data') :
                  /\ ItemView(item_data', k).sales = ItemView(item_data, k).sales
                  /\ ItemView(item_data', k).pickups = ItemView(item_data, k).pickups
                  /\ ItemView(item_data', k).dropoffs = ItemView(item_data, k).dropoffs
                  /\ ItemView(item_data', k).current_stock
                        = ItemView(item_data, k).current_stock
            /\ UNCHANGED <<store, gaze_data, height_history>>
       /\ (result'.op = "execute_operation" /\ result'.value = "no_item") =>
            UNCHANGED <<memory, store>>]_vars

\* x had stock 5: a sale of 3 went through, the next sale of 3 was rejected
\* and left stock 2 and sales 3 in memory and in the row
C22_Witness ==
    /\ result.op = "execute_operation"
    /\ result.args = <<"x", "sale", 3>>
    /\ result.value = "rejected"
    /\ Row(item_data, "x").current_stock = 2
    /\ Row(item_data, "x").sales = 3
    /\ Row(db_item_data, "x") = Row(item_data, "x")

\* calculate_gaze_range() was called without an override
C23_NoOverride == result.op = "calculate_gaze_range" /\ result.args[1] = <<>>

\* C23 as stated: for every buffer content (all samples in [1.0, 2.2])
\* calculate_gaze_range() without override returns lower <= upper.
C23_RangeNeverInverted ==
    C23_NoOverride => ~RatLess(result.value.upper, result.value.lower)

\* C23 amended: calculate_gaze_range() without override returns lower <=
\* upper exactly when the buffer is empty or its mean is at most 2.0 m; for
\* a mean above 2.0 m it returns the inverted pair (0.95 mean - 0.10, 1.8).
C23_RangeOrderedUpToTwoMetres ==
    C23_NoOverride =>
        LET total == SumSeq(height_history)
            n == Len(height_history)
            inverted == RatLess(result.value.upper, result.value.lower)
        IN /\ \A i \in DOMAIN height_history :
                 MinHeight <= height_history[i] /\ height_history[i] <= MaxHeight
           /\ inverted <=> (n > 0 /\ total > 200 * n)
           /\ inverted =>
                 /\ RatEq(result.value.upper, <<180, 1>>)
                 /\ RatEq(result.value.lower, <<19 * total - 200 * n, 20 * n>>)

\* one sample of 2.2 m in the buffer: the range is (1.99, 1.8)
C23_Witness ==
    /\ C23_NoOverride
    /\ height_history = <<220>>
    /\ RatEq(result.value.lower, <<199, 1>>)
    /\ RatEq(result.value.upper, <<180, 1>>)

====
